---- MODULE Spec2Model ----
(***************************************************************************)
(* Model of nalgebra-sparse: the serial sparse subtraction routines        *)
(* (ops/serial/spsub.rs) and the serial format conversions                 *)
(* (convert/serial.rs).  Every routine is a pure function; it is modelled  *)
(* as an operator that is computed the way the code computes it, and one   *)
(* action per routine applies it to operands drawn from bounded sets.      *)
(***************************************************************************)
EXTENDS Integers, Sequences, FiniteSets, TLC

VARIABLES pc, op, lhs, rhs, result

vars == <<pc, op, lhs, rhs, result>>

(***************************************************************************)
(* Bounds of the model.                                                    *)
(***************************************************************************)
\* A matrix has at most MaxCells cells (nrows * ncols <= MaxCells).
MaxCells == 4
\* A compressed operand stores at most MaxNnz entries.
MaxNnz == 2
\* A coordinate matrix holds at most MaxCoo triplets.
MaxCoo == 3

\* An exhausted TripletSubtractionIter is polled at most MaxPolls times.
MaxPolls == 2

\* The element values of the operands (0 makes explicit zeros).
Vals == {0, 1}

Shapes == {sh \in (0..MaxCells) \X (0..MaxCells) : sh[1] * sh[2] <= MaxCells}

(***************************************************************************)
(* Option<T>: None is the empty sequence, Some(x) a sequence of one.       *)
(***************************************************************************)
None == <<>>

Some(x) == <<x>>

RECURSIVE Flatten(_)
Flatten(ss) == IF ss = <<>> THEN <<>> ELSE Head(ss) \o Flatten(Tail(ss))

RECURSIVE SumSeq(_)
SumSeq(s) == IF s = <<>> THEN 0 ELSE Head(s) + SumSeq(Tail(s))

(***************************************************************************)
(* The compressed matrix (cs::CsMatrix) and its compression strategy.      *)
(***************************************************************************)
\* Compression::nmajor / nminor: (row, col) -> major, minor.
nmajor(kind, r, c) == IF kind = "CSR" THEN r ELSE c

nminor(kind, r, c) == IF kind = "CSR" THEN c ELSE r

\* CsMatrix::from_parts_unchecked: stores its arguments, checks nothing.
from_parts_unchecked(kind, nrows, ncols, offsets, indices, data) ==
    [kind |-> kind, nrows |-> nrows, ncols |-> ncols,
     offsets |-> offsets, indices |-> indices, data |-> data]

shape(m) == <<m.nrows, m.ncols>>

nnz(m) == Len(m.data)

\* CountToOffsetIter: one offset per count, the running sum of the counts
\* before it (the format the tests build by hand: 3 rows, offsets [0, 1, 2]).
CountToOffsetIter(counts) ==
    [k \in 1..Len(counts) |-> SumSeq(SubSeq(counts, 1, k - 1))]

\* End (exclusive, 0-based) of major lane k (1-based lane number).
LaneEnd(m, k) == IF k + 1 <= Len(m.offsets) THEN m.offsets[k + 1] ELSE Len(m.indices)

\* Lane iteration: the (minor, value) pairs of major lane k, ascending.
major_lane(m, k) ==
    LET start == m.offsets[k]
        stop  == LaneEnd(m, k)
    IN  [p \in 1..(stop - start) |-> <<m.indices[start + p], m.data[start + p]>>]

\* CsMatrix::triplet_iter: (major, minor, value) in storage order.
triplet_iter(m) ==
    LET nm == nmajor(m.kind, m.nrows, m.ncols)
    IN  Flatten([k \in 1..nm |->
                   [p \in DOMAIN major_lane(m, k) |->
                      <<k - 1, major_lane(m, k)[p][1], major_lane(m, k)[p][2]>>]])

\* CsMatrix::minor_lane_iter: for each minor lane, its (major, value) pairs
\* ascending by major.
minor_lane_iter(m) ==
    LET nn == nminor(m.kind, m.nrows, m.ncols)
        ts == triplet_iter(m)
    IN  [j \in 1..nn |->
           LET sel == SelectSeq(ts, LAMBDA t : t[2] = j - 1)
           IN  [p \in DOMAIN sel |-> <<sel[p][1], sel[p][3]>>]]

\* CsMatrix::transpose / transpose_owned: the same buffers read in the other
\* orientation, with the shape swapped.
transpose(m) ==
    from_parts_unchecked(IF m.kind = "CSR" THEN "CSC" ELSE "CSR",
                         m.ncols, m.nrows, m.offsets, m.indices, m.data)

\* CsMatrix::zeros: the matrix of the given shape that stores nothing.
zeros(kind, nrows, ncols) ==
    from_parts_unchecked(kind, nrows, ncols,
                         CountToOffsetIter([k \in 1..nmajor(kind, nrows, ncols) |-> 0]),
                         <<>>, <<>>)

(***************************************************************************)
(* Well-formed operands.                                                   *)
(***************************************************************************)
LexLess(a, b) == a[1] < b[1] \/ (a[1] = b[1] /\ a[2] < b[2])

RECURSIVE SortKeys(_)
SortKeys(S) ==
    IF S = {} THEN <<>>
    ELSE LET m == CHOOSE x \in S : \A y \in S \ {x} : LexLess(x, y)
         IN  <<m>> \o SortKeys(S \ {m})

Cells(sh) == (0..(sh[1] - 1)) \X (0..(sh[2] - 1))

\* The compressed matrix of orientation kind that stores f[cell] at each
\* cell <<row, col>> of DOMAIN f.
CsOfCells(kind, sh, f) ==
    LET keys   == SortKeys({<<nmajor(kind, c[1], c[2]), nminor(kind, c[1], c[2])>> :
                            c \in DOMAIN f})
        cell(k) == IF kind = "CSR" THEN <<k[1], k[2]>> ELSE <<k[2], k[1]>>
        nm     == nmajor(kind, sh[1], sh[2])
        counts == [k \in 1..nm |-> Cardinality({c \in DOMAIN f :
                                     nmajor(kind, c[1], c[2]) = k - 1})]
    IN  from_parts_unchecked(kind, sh[1], sh[2], CountToOffsetIter(counts),
                             [p \in 1..Len(keys) |-> keys[p][2]],
                             [p \in 1..Len(keys) |-> f[cell(keys[p])]])

CellMaps(sh) ==
    UNION {[S -> Vals] : S \in {T \in SUBSET Cells(sh) : Cardinality(T) <= MaxNnz}}

CsMatrices(kind) ==
    UNION {{CsOfCells(kind, sh, f) : f \in CellMaps(sh)} : sh \in Shapes}

CsrMatrices == CsMatrices("CSR")

CscMatrices == CsMatrices("CSC")

(***************************************************************************)
(* Outcomes of a call.                                                     *)
(***************************************************************************)
NoValue == [kind |-> "none"]

NoError == [kind |-> "none", message |-> ""]

\* OperationError::from_kind_and_message(InvalidPattern, "The two matrices
\* have differing shapes (both should be M x N)"); the source writes the
\* multiplication sign between M and N.  The same literal in all eight
\* functions.
ShapeError ==
    [kind |-> "InvalidPattern",
     message |-> "The two matrices have differing shapes (both should be M x N)"]

\* reads: entries pulled from the operands' iterators; writes: dense cells
\* written.
Ok(v, reads, writes) ==
    [kind |-> "Ok", value |-> v, err |-> NoError, reads |-> reads, writes |-> writes]

Err(e, reads, writes) ==
    [kind |-> "Err", value |-> NoValue, err |-> e, reads |-> reads, writes |-> writes]

\* An index out of bounds aborts the call.
Panic(reads, writes) ==
    [kind |-> "Panic", value |-> NoValue, err |-> NoError, reads |-> reads,
     writes |-> writes]

(***************************************************************************)
(* TripletSubtractionIter.                                                 *)
(***************************************************************************)
\* Iterator::next on a plain sequence iterator.
iter_next(it) ==
    IF it = <<>> THEN [val |-> None, rest |-> <<>>]
    ELSE [val |-> Some(Head(it)), rest |-> Tail(it)]

\* The construction in the spsub functions: one item is pulled from each
\* stream before the merge starts.
TripletSubtractionIter(left, right) ==
    [left_val   |-> iter_next(left).val,
     right_val  |-> iter_next(right).val,
     left_iter  |-> iter_next(left).rest,
     right_iter |-> iter_next(right).rest]

AdvanceLeft(s) ==
    [s EXCEPT !.left_val = iter_next(s.left_iter).val,
              !.left_iter = iter_next(s.left_iter).rest]

AdvanceRight(s) ==
    [s EXCEPT !.right_val = iter_next(s.right_iter).val,
              !.right_iter = iter_next(s.right_iter).rest]

\* Mutant: a stream that is exhausted ends the merge.
TripletSubtractionIter_next_stops(s) ==
    IF s.left_val # None /\ s.right_val # None THEN
        LET l == s.left_val[1]
            r == s.right_val[1]
        IN  IF l[1] < r[1] \/ (l[1] = r[1] /\ l[2] < r[2]) THEN
                [item |-> Some(<<l[1], l[2], l[3]>>), state |-> AdvanceLeft(s)]
            ELSE IF l[1] > r[1] \/ (l[1] = r[1] /\ l[2] > r[2]) THEN
                [item |-> Some(<<r[1], r[2], 0 - r[3]>>), state |-> AdvanceRight(s)]
            ELSE
                [item |-> Some(<<l[1], l[2], l[3] - r[3]>>),
                 state |-> AdvanceRight(AdvanceLeft(s))]
    ELSE
        [item |-> None, state |-> s]

\* Mutant: on equal keys only the left stream is advanced.
TripletSubtractionIter_next_equal_keeps_right(s) ==
    IF s.left_val # None /\ s.right_val # None THEN
        LET l == s.left_val[1]
            r == s.right_val[1]
        IN  IF l[1] < r[1] \/ (l[1] = r[1] /\ l[2] < r[2]) THEN
                [item |-> Some(<<l[1], l[2], l[3]>>), state |-> AdvanceLeft(s)]
            ELSE IF l[1] > r[1] \/ (l[1] = r[1] /\ l[2] > r[2]) THEN
                [item |-> Some(<<r[1], r[2], 0 - r[3]>>), state |-> AdvanceRight(s)]
            ELSE
                [item |-> Some(<<l[1], l[2], l[3] - r[3]>>),
                 state |-> AdvanceLeft(s)]
    ELSE IF s.left_val # None THEN
        [item |-> Some(s.left_val[1]), state |-> AdvanceLeft(s)]
    ELSE IF s.right_val # None THEN
        LET r == s.right_val[1]
        IN  [item |-> Some(<<r[1], r[2], 0 - r[3]>>), state |-> AdvanceRight(s)]
    ELSE
        [item |-> None, state |-> s]

\* Mutant: with the left stream exhausted the right value is emitted as it is.
TripletSubtractionIter_next_unnegated(s) ==
    IF s.left_val # None /\ s.right_val # None THEN
        LET l == s.left_val[1]
            r == s.right_val[1]
        IN  IF l[1] < r[1] \/ (l[1] = r[1] /\ l[2] < r[2]) THEN
                [item |-> Some(<<l[1], l[2], l[3]>>), state |-> AdvanceLeft(s)]
            ELSE IF l[1] > r[1] \/ (l[1] = r[1] /\ l[2] > r[2]) THEN
                [item |-> Some(<<r[1], r[2], 0 - r[3]>>), state |-> AdvanceRight(s)]
            ELSE
                [item |-> Some(<<l[1], l[2], l[3] - r[3]>>),
                 state |-> AdvanceRight(AdvanceLeft(s))]
    ELSE IF s.left_val # None THEN
        [item |-> Some(s.left_val[1]), state |-> AdvanceLeft(s)]
    ELSE IF s.right_val # None THEN
        LET r == s.right_val[1]
        IN  [item |-> Some(<<r[1], r[2], r[3]>>), state |-> AdvanceRight(s)]
    ELSE
        [item |-> None, state |-> s]

\* Mutant: the merge ends when the right stream is exhausted.
TripletSubtractionIter_next_ends_with_right(s) ==
    IF s.left_val # None /\ s.right_val # None THEN
        LET l == s.left_val[1]
            r == s.right_val[1]
        IN  IF l[1] < r[1] \/ (l[1] = r[1] /\ l[2] < r[2]) THEN
                [item |-> Some(<<l[1], l[2], l[3]>>), state |-> AdvanceLeft(s)]
            ELSE IF l[1] > r[1] \/ (l[1] = r[1] /\ l[2] > r[2]) THEN
                [item |-> Some(<<r[1], r[2], 0 - r[3]>>), state |-> AdvanceRight(s)]
            ELSE
                [item |-> Some(<<l[1], l[2], l[3] - r[3]>>),
                 state |-> AdvanceRight(AdvanceLeft(s))]
    ELSE IF s.right_val # None THEN
        LET r == s.right_val[1]
        IN  [item |-> Some(<<r[1], r[2], 0 - r[3]>>), state |-> AdvanceRight(s)]
    ELSE
        [item |-> None, state |-> s]

\* TripletSubtractionIter::next: the item and the iterator afterwards.
TripletSubtractionIter_next(s) ==
    IF s.left_val # None /\ s.right_val # None THEN
        LET l == s.left_val[1]
            r == s.right_val[1]
        IN  IF l[1] < r[1] \/ (l[1] = r[1] /\ l[2] < r[2]) THEN
                [item |-> Some(<<l[1], l[2], l[3]>>), state |-> AdvanceLeft(s)]
            ELSE IF l[1] > r[1] \/ (l[1] = r[1] /\ l[2] > r[2]) THEN
                [item |-> Some(<<r[1], r[2], 0 - r[3]>>), state |-> AdvanceRight(s)]
            ELSE
                [item |-> Some(<<l[1], l[2], l[3] - r[3]>>),
                 state |-> AdvanceRight(AdvanceLeft(s))]
    ELSE IF s.left_val # None THEN
        [item |-> Some(s.left_val[1]), state |-> AdvanceLeft(s)]
    ELSE IF s.right_val # None THEN
        LET r == s.right_val[1]
        IN  [item |-> Some(<<r[1], r[2], 0 - r[3]>>), state |-> AdvanceRight(s)]
    ELSE
        [item |-> None, state |-> s]

\* Entries of the two streams the iterator has not pulled yet.
Unpulled(s) == Len(s.left_iter) + Len(s.right_iter)

\* Mutant: a difference that is exactly zero is not stored.
RECURSIVE CollectTriplets_pruning(_, _)
CollectTriplets_pruning(s, acc) ==
    LET n == TripletSubtractionIter_next(s)
    IN  IF n.item = None THEN [acc EXCEPT !.iter = n.state]
        ELSE LET t == n.item[1]
             IN  IF t[1] >= Len(acc.counts)
                 THEN [acc EXCEPT !.iter = n.state, !.panic = TRUE]
                 ELSE IF t[3] = 0 THEN CollectTriplets_pruning(n.state, acc)
                 ELSE CollectTriplets_pruning(n.state,
                        [acc EXCEPT !.counts[t[1] + 1] = @ + 1,
                                    !.indices = Append(@, t[2]),
                                    !.data = Append(@, t[3])])

\* for (i, j, v) in added_triplets { counts[i] += 1; indices.push(j);
\* data.push(v); }   (counts[i] aborts when i is no slot of counts)
RECURSIVE CollectTriplets(_, _)
CollectTriplets(s, acc) ==
    LET n == TripletSubtractionIter_next(s)
    IN  IF n.item = None THEN [acc EXCEPT !.iter = n.state]
        ELSE LET t == n.item[1]
             IN  IF t[1] >= Len(acc.counts)
                 THEN [acc EXCEPT !.iter = n.state, !.panic = TRUE]
                 ELSE CollectTriplets(n.state,
                        [acc EXCEPT !.counts[t[1] + 1] = @ + 1,
                                    !.indices = Append(@, t[2]),
                                    !.data = Append(@, t[3])])

\* The body shared by the sparse-sparse functions after the shape check:
\* merge the two streams, count per major lane, build the offsets and
\* construct the result unchecked.
MergeStreams(kind, lrows, lcols, ncounts, left, right) ==
    LET total == Len(left) + Len(right)
        acc   == CollectTriplets(TripletSubtractionIter(left, right),
                                 [counts |-> [k \in 1..ncounts |-> 0],
                                  indices |-> <<>>, data |-> <<>>,
                                  panic |-> FALSE, iter |-> None])
    IN  IF acc.panic THEN Panic(total - Unpulled(acc.iter), 0)
        ELSE Ok(from_parts_unchecked(kind, lrows, lcols,
                                     CountToOffsetIter(acc.counts),
                                     acc.indices, acc.data),
                total - Unpulled(acc.iter), 0)

\* Mutant: the other operand read in its native triplet order.
MinorLaneTriplets_native(m) == triplet_iter(m)

\* csx.minor_lane_iter().enumerate().flat_map(|(i, lane)| lane.map(move
\* |(j, value)| (i, j, value)))
MinorLaneTriplets(m) ==
    LET lanes == minor_lane_iter(m)
    IN  Flatten([i \in 1..Len(lanes) |->
                   [p \in DOMAIN lanes[i] |-> <<i - 1, lanes[i][p][1], lanes[i][p][2]>>]])

(***************************************************************************)
(* Sparse-sparse subtraction.                                              *)
(***************************************************************************)
\* Mutant: the two streams are handed to the merge in the other order.
spsub_csr_csc_reversed(csr, csc) ==
    LET lrows == csr.nrows
        lcols == csr.ncols
        rrows == csc.nrows
        rcols == csc.ncols
    IN  IF lrows # rrows \/ lcols # rcols THEN Err(ShapeError, 0, 0)
        ELSE MergeStreams("CSR", lrows, lcols, lrows,
                          MinorLaneTriplets(csc), triplet_iter(csr))

spsub_csr_csc(csr, csc) ==
    LET lrows == csr.nrows
        lcols == csr.ncols
        rrows == csc.nrows
        rcols == csc.ncols
    IN  IF lrows # rrows \/ lcols # rcols THEN Err(ShapeError, 0, 0)
        ELSE MergeStreams("CSR", lrows, lcols, lrows,
                          triplet_iter(csr), MinorLaneTriplets(csc))

spsub_csc_csr(csc, csr) ==
    LET lrows == csc.nrows
        lcols == csc.ncols
        rrows == csr.nrows
        rcols == csr.ncols
    IN  IF lrows # rrows \/ lcols # rcols THEN Err(ShapeError, 0, 0)
        ELSE MergeStreams("CSC", lrows, lcols, lcols,
                          triplet_iter(csc), MinorLaneTriplets(csr))

spsub_csc_csc(l, r) ==
    LET lrows == l.nrows
        lcols == l.ncols
        rrows == r.nrows
        rcols == r.ncols
    IN  IF lrows # rrows \/ lcols # rcols THEN Err(ShapeError, 0, 0)
        ELSE MergeStreams("CSC", lrows, lcols, lcols,
                          triplet_iter(l), triplet_iter(r))

\* Ok(spsub_csc_csc(lhs.transpose(), rhs.transpose())?.transpose_owned())
spsub_csr_csr(l, r) ==
    LET inner == spsub_csc_csc(transpose(l), transpose(r))
    IN  IF inner.kind = "Ok" THEN [inner EXCEPT !.value = transpose(inner.value)]
        ELSE inner

(***************************************************************************)
(* The dense matrix (nalgebra::Matrix): column-major storage.              *)
(***************************************************************************)
DenseMatrix(nrows, ncols, data) ==
    [kind |-> "Dense", nrows |-> nrows, ncols |-> ncols, data |-> data]

DenseMatrices ==
    UNION {{DenseMatrix(sh[1], sh[2], d) : d \in [1..(sh[1] * sh[2]) -> Vals]} :
           sh \in Shapes}

\* Matrix::index((row, col)) aborts unless the cell exists.
InBounds(d, row, col) == row < d.nrows /\ col < d.ncols

LinearIndex(d, row, col) == col * d.nrows + row + 1

Index(d, row, col) == d.data[LinearIndex(d, row, col)]

\* *dense.index_mut((row, col)) = v
IndexMut(d, row, col, v) == [d EXCEPT !.data[LinearIndex(d, row, col)] = v]

(***************************************************************************)
(* Dense-sparse subtraction.                                               *)
(***************************************************************************)
\* for dense_val in dense.iter_mut() { *dense_val = -(dense_val.clone()); }
NegateAll(st) ==
    [st EXCEPT !.dense.data = [p \in DOMAIN st.dense.data |-> 0 - st.dense.data[p]],
               !.writes = @ + Len(st.dense.data)]

\* One pass of  let current = dense.index((row, col)).clone();
\*              *dense.index_mut((row, col)) = current - val.clone();
\* over the triplets ts, where the loop binds row to component rowAt of the
\* triplet and col to component colAt; sign is 1 for `current + val`.
RECURSIVE ApplyTriplets(_, _, _, _, _)
ApplyTriplets(st, ts, rowAt, colAt, sign) ==
    IF ts = <<>> THEN st
    ELSE LET t   == Head(ts)
             row == t[rowAt]
             col == t[colAt]
             rd  == [st EXCEPT !.reads = @ + 1]
         IN  IF ~InBounds(st.dense, row, col) THEN [rd EXCEPT !.panic = TRUE]
             ELSE ApplyTriplets(
                    [rd EXCEPT !.dense = IndexMut(@, row, col,
                                                  Index(st.dense, row, col) + sign * t[3]),
                               !.writes = @ + 1],
                    Tail(ts), rowAt, colAt, sign)

DenseStart(dense) == [dense |-> dense, reads |-> 0, writes |-> 0, panic |-> FALSE]

DenseOutcome(st) ==
    IF st.panic THEN Panic(st.reads, st.writes) ELSE Ok(st.dense, st.reads, st.writes)

\* Mutant: the loop binds (row, col, val) to the column-major triplets.
spsub_dense_csc_swapped(dense, csc) ==
    LET lrows == dense.nrows
        lcols == dense.ncols
        rrows == csc.nrows
        rcols == csc.ncols
    IN  IF lrows # rrows \/ lcols # rcols THEN Err(ShapeError, 0, 0)
        ELSE DenseOutcome(ApplyTriplets(DenseStart(dense), triplet_iter(csc), 1, 2, -1))

\* Mutant: the error message reports the two shapes.
spsub_dense_csc_reporting(dense, csc) ==
    LET lrows == dense.nrows
        lcols == dense.ncols
        rrows == csc.nrows
        rcols == csc.ncols
    IN  IF lrows # rrows \/ lcols # rcols
        THEN Err([kind |-> "InvalidPattern",
                  message |-> <<"differing shapes", lrows, lcols, rrows, rcols>>], 0, 0)
        ELSE DenseOutcome(ApplyTriplets(DenseStart(dense), triplet_iter(csc), 2, 1, -1))

\* for (col, row, val) in csc.triplet_iter() { dense[(row, col)] -= val }
spsub_dense_csc(dense, csc) ==
    LET lrows == dense.nrows
        lcols == dense.ncols
        rrows == csc.nrows
        rcols == csc.ncols
    IN  IF lrows # rrows \/ lcols # rcols THEN Err(ShapeError, 0, 0)
        ELSE DenseOutcome(ApplyTriplets(DenseStart(dense), triplet_iter(csc), 2, 1, -1))

\* Mutant: the negation pass runs before the shapes are compared.
spsub_csc_dense_negating_first(csc, dense) ==
    LET lrows   == dense.nrows
        lcols   == dense.ncols
        rrows   == csc.nrows
        rcols   == csc.ncols
        negated == NegateAll(DenseStart(dense))
    IN  IF lrows # rrows \/ lcols # rcols
        THEN Err(ShapeError, negated.reads, negated.writes)
        ELSE DenseOutcome(ApplyTriplets(negated, triplet_iter(csc), 2, 1, 1))

\* negate every cell, then
\* for (col, row, val) in csc.triplet_iter() { dense[(row, col)] += val }
spsub_csc_dense(csc, dense) ==
    LET lrows == dense.nrows
        lcols == dense.ncols
        rrows == csc.nrows
        rcols == csc.ncols
    IN  IF lrows # rrows \/ lcols # rcols THEN Err(ShapeError, 0, 0)
        ELSE DenseOutcome(ApplyTriplets(NegateAll(DenseStart(dense)),
                                        triplet_iter(csc), 2, 1, 1))

\* for (row, col, val) in csr.triplet_iter() { dense[(row, col)] -= val }
spsub_dense_csr(dense, csr) ==
    LET lrows == dense.nrows
        lcols == dense.ncols
        rrows == csr.nrows
        rcols == csr.ncols
    IN  IF lrows # rrows \/ lcols # rcols THEN Err(ShapeError, 0, 0)
        ELSE DenseOutcome(ApplyTriplets(DenseStart(dense), triplet_iter(csr), 1, 2, -1))

\* negate every cell, then
\* for (col, row, val) in csr.triplet_iter() { dense[(row, col)] += val }
\* (the loop names the major index of the row-major operand `col`)
spsub_csr_dense(csr, dense) ==
    LET lrows == dense.nrows
        lcols == dense.ncols
        rrows == csr.nrows
        rcols == csr.ncols
    IN  IF lrows # rrows \/ lcols # rcols THEN Err(ShapeError, 0, 0)
        ELSE DenseOutcome(ApplyTriplets(NegateAll(DenseStart(dense)),
                                        triplet_iter(csr), 2, 1, 1))

(***************************************************************************)
(* The coordinate matrix (coo::CooMatrix) and its conversion to the        *)
(* compressed formats.                                                     *)
(***************************************************************************)
CooMatrix(nrows, ncols, rows, cols, vals) ==
    [kind |-> "COO", nrows |-> nrows, ncols |-> ncols,
     rows |-> rows, cols |-> cols, vals |-> vals]

\* Every sequence of n triplets inside the shape sh, in any insertion order,
\* duplicates included.
CooMatrices(sh, n) ==
    {CooMatrix(sh[1], sh[2],
               [p \in 1..n |-> ts[p][1][1]],
               [p \in 1..n |-> ts[p][1][2]],
               [p \in 1..n |-> ts[p][2]]) :
     ts \in [1..n -> Cells(sh) \X Vals]}

\* Mutant: a duplicate overwrites the value stored before it.
Combinator_overwriting(f, prev, val) == val

\* The duplicate combinator handed to convert_coo_cs: any F: Fn(T, T) -> T,
\* called combinator(previous value, value).  The conversions pass Add::add.
Combinator(f, prev, val) ==
    CASE f = "Add::add" -> prev + val
      [] f = "Sub::sub" -> prev - val

\* Mutant: the sort key is the major index alone.
sort_unstable_by_major_only(ts) ==
    {s \in {[p \in 1..Len(ts) |-> ts[f[p]]] : f \in Permutations(1..Len(ts))} :
        \A p \in 1..(Len(s) - 1) : s[p][1] <= s[p + 1][1]}

\* Mutant: the triplets are left in insertion order.
sort_unstable_by_skipped(ts) == {ts}

\* triplets.sort_unstable_by(key): every order of the triplets that is
\* ascending in (major, minor); triplets of equal key may end in any order.
sort_unstable_by(ts) ==
    {s \in {[p \in 1..Len(ts) |-> ts[f[p]]] : f \in Permutations(1..Len(ts))} :
        \A p \in 1..(Len(s) - 1) : ~LexLess(s[p + 1], s[p])}

\* Mutant: only the minor index is compared with the last one stored.
IsDuplicate_minor_only(acc, i, j) ==
    /\ acc.i_prev # None
    /\ acc.indices # <<>>
    /\ j = acc.indices[Len(acc.indices)]

\* if let Some(i_prev) = i_prev { if i == i_prev {
\*     if let Some(j_prev) = indices.last() { if j == *j_prev { .. } } } }
IsDuplicate(acc, i, j) ==
    /\ acc.i_prev # None
    /\ i = acc.i_prev[1]
    /\ acc.indices # <<>>
    /\ j = acc.indices[Len(acc.indices)]

\* The walk over the sorted triplets.
RECURSIVE WalkSorted(_, _, _)
WalkSorted(ts, acc, f) ==
    IF ts = <<>> THEN acc
    ELSE LET i   == Head(ts)[1]
             j   == Head(ts)[2]
             val == Head(ts)[3]
         IN  IF IsDuplicate(acc, i, j) THEN
                 WalkSorted(Tail(ts),
                            [acc EXCEPT !.data[Len(acc.data)] = Combinator(f, @, val)], f)
             ELSE IF i >= Len(acc.counts) THEN [acc EXCEPT !.panic = TRUE]
             ELSE WalkSorted(Tail(ts),
                             [acc EXCEPT !.counts[i + 1] = @ + 1,
                                         !.indices = Append(@, j),
                                         !.data = Append(@, val),
                                         !.i_prev = Some(i)], f)

\* convert_coo_cs: the outcomes the call can have, one per order the
\* unstable sort can leave the triplets in.
convert_coo_cs(kind, coo, f) ==
    LET nrows    == coo.nrows
        ncols    == coo.ncols
        nm       == nmajor(kind, nrows, ncols)
        triplets == [p \in 1..Len(coo.rows) |->
                       <<nmajor(kind, coo.rows[p], coo.cols[p]),
                         nminor(kind, coo.rows[p], coo.cols[p]),
                         coo.vals[p]>>]
        built(sorted) ==
            LET acc == WalkSorted(sorted,
                                  [counts |-> [k \in 1..nm |-> 0], indices |-> <<>>,
                                   data |-> <<>>, i_prev |-> None, panic |-> FALSE], f)
            IN  IF acc.panic THEN Panic(Len(triplets), 0)
                ELSE Ok(from_parts_unchecked(kind, nrows, ncols,
                                             CountToOffsetIter(acc.counts),
                                             acc.indices, acc.data),
                        Len(triplets), 0)
    IN  {built(sorted) : sorted \in sort_unstable_by(triplets)}

convert_coo_csr(coo) == convert_coo_cs("CSR", coo, "Add::add")

convert_coo_csc(coo) == convert_coo_cs("CSC", coo, "Add::add")

(***************************************************************************)
(* The other serial conversions.                                           *)
(***************************************************************************)
\* CooMatrix::triplet_iter: (row, col, value) in insertion order.
coo_triplet_iter(coo) ==
    [p \in 1..Len(coo.rows) |-> <<coo.rows[p], coo.cols[p], coo.vals[p]>>]

\* CooMatrix::new followed by one push per triplet of ts.
CooFromTriplets(nrows, ncols, ts) ==
    CooMatrix(nrows, ncols,
              [p \in 1..Len(ts) |-> ts[p][1]],
              [p \in 1..Len(ts) |-> ts[p][2]],
              [p \in 1..Len(ts) |-> ts[p][3]])

\* DMatrix::zeros(nrows, ncols)
DMatrix_zeros(nrows, ncols) ==
    DenseMatrix(nrows, ncols, [p \in 1..(nrows * ncols) |-> 0])

\* dense.iter().enumerate(): (index, value) over the column-major storage,
\* index counted from 0.
DenseEnumerate(dense) == [p \in 1..Len(dense.data) |-> <<p - 1, dense.data[p]>>]

\* Mutant: the storage index is decoded as if the storage were row-major.
convert_dense_coo_row_major(dense) ==
    LET kept == SelectSeq(DenseEnumerate(dense), LAMBDA e : e[2] # 0)
        ts   == [p \in 1..Len(kept) |->
                   <<kept[p][1] \div dense.ncols, kept[p][1] % dense.ncols, kept[p][2]>>]
    IN  Ok(CooFromTriplets(dense.nrows, dense.ncols, ts), Len(dense.data), 0)

\* Mutant: zero cells are pushed too.
convert_dense_coo_keeping_zeros(dense) ==
    LET kept == DenseEnumerate(dense)
        ts   == [p \in 1..Len(kept) |->
                   <<kept[p][1] % dense.nrows, kept[p][1] \div dense.nrows, kept[p][2]>>]
    IN  Ok(CooFromTriplets(dense.nrows, dense.ncols, ts), Len(dense.data), 0)

\* for (index, v) in dense.iter().enumerate() { if v != 0 {
\*     coo.push(index % nrows, index / nrows, v) } }
convert_dense_coo(dense) ==
    LET kept == SelectSeq(DenseEnumerate(dense), LAMBDA e : e[2] # 0)
        ts   == [p \in 1..Len(kept) |->
                   <<kept[p][1] % dense.nrows, kept[p][1] \div dense.nrows, kept[p][2]>>]
    IN  Ok(CooFromTriplets(dense.nrows, dense.ncols, ts), Len(dense.data), 0)

\* Mutant: a triplet overwrites its cell (output[(i, j)] = v).
convert_coo_dense_overwriting(coo) ==
    LET ts   == coo_triplet_iter(coo)
        zero == DMatrix_zeros(coo.nrows, coo.ncols)
        last(p) == LET hits == SelectSeq(ts, LAMBDA t : LinearIndex(zero, t[1], t[2]) = p)
                   IN  IF hits = <<>> THEN 0 ELSE hits[Len(hits)][3]
    IN  Ok(DenseMatrix(coo.nrows, coo.ncols, [p \in 1..(coo.nrows * coo.ncols) |-> last(p)]),
           Len(ts), Len(ts))

\* for (i, j, v) in coo.triplet_iter() { output[(i, j)] += v }
convert_coo_dense(coo) ==
    DenseOutcome(ApplyTriplets(DenseStart(DMatrix_zeros(coo.nrows, coo.ncols)),
                               coo_triplet_iter(coo), 1, 2, 1))

\* Mutant: explicit zeros are not pushed.
convert_csr_coo_dropping_zeros(csr) ==
    LET ts == SelectSeq(triplet_iter(csr), LAMBDA t : t[3] # 0)
    IN  Ok(CooFromTriplets(csr.nrows, csr.ncols,
                           [p \in 1..Len(ts) |-> <<ts[p][1], ts[p][2], ts[p][3]>>]),
           Len(ts), 0)

\* for (i, j, v) in csr.triplet_iter() { result.push(i, j, v) }
convert_csr_coo(csr) ==
    LET ts == triplet_iter(csr)
    IN  Ok(CooFromTriplets(csr.nrows, csr.ncols,
                           [p \in 1..Len(ts) |-> <<ts[p][1], ts[p][2], ts[p][3]>>]),
           Len(ts), 0)

\* Mutant: the column-major triplets are pushed as (i, j, v) unswapped.
convert_csc_coo_unswapped(csc) ==
    LET ts == triplet_iter(csc)
    IN  Ok(CooFromTriplets(csc.nrows, csc.ncols,
                           [p \in 1..Len(ts) |-> <<ts[p][1], ts[p][2], ts[p][3]>>]),
           Len(ts), 0)

\* for (i, j, v) in csc.triplet_iter() { coo.push(j, i, v) }
convert_csc_coo(csc) ==
    LET ts == triplet_iter(csc)
    IN  Ok(CooFromTriplets(csc.nrows, csc.ncols,
                           [p \in 1..Len(ts) |-> <<ts[p][2], ts[p][1], ts[p][3]>>]),
           Len(ts), 0)

\* for (i, j, v) in csr.triplet_iter() { output[(i, j)] += v }
convert_csr_dense(csr) ==
    DenseOutcome(ApplyTriplets(DenseStart(DMatrix_zeros(csr.nrows, csr.ncols)),
                               triplet_iter(csr), 1, 2, 1))

\* Mutant: the column-major triplets are written to cell (i, j) unswapped.
convert_csc_dense_unswapped(csc) ==
    DenseOutcome(ApplyTriplets(DenseStart(DMatrix_zeros(csc.nrows, csc.ncols)),
                               triplet_iter(csc), 1, 2, 1))

\* for (i, j, v) in csc.triplet_iter() { output[(j, i)] += v }
convert_csc_dense(csc) ==
    DenseOutcome(ApplyTriplets(DenseStart(DMatrix_zeros(csc.nrows, csc.ncols)),
                               triplet_iter(csc), 2, 1, 1))

\* The inner loop of convert_dense_csr / convert_dense_csc over major lane
\* `major`: the <<minor, value>> of every cell of the lane that is not zero.
DenseLaneScan(kind, dense, major) ==
    LET nn    == nminor(kind, dense.nrows, dense.ncols)
        cellv(minor) == IF kind = "CSR" THEN Index(dense, major, minor)
                        ELSE Index(dense, minor, major)
    IN  SelectSeq([m \in 1..nn |-> <<m - 1, cellv(m - 1)>>], LAMBDA e : e[2] # 0)

\* Mutant: the offset is pushed after every lane, the last one included.
convert_dense_cs_closing_last(kind, dense) ==
    LET nm      == nmajor(kind, dense.nrows, dense.ncols)
        lanes   == [k \in 1..nm |-> DenseLaneScan(kind, dense, k - 1)]
        entries == Flatten(lanes)
        offsets == <<0>> \o [k \in 1..nm |-> Len(Flatten(SubSeq(lanes, 1, k)))]
    IN  Ok(from_parts_unchecked(kind, dense.nrows, dense.ncols, offsets,
                                [p \in 1..Len(entries) |-> entries[p][1]],
                                [p \in 1..Len(entries) |-> entries[p][2]]),
           dense.nrows * dense.ncols, 0)

\* offsets.push(0); for each major lane: scan it; if it is not the last
\* lane, offsets.push(indices.len()).
convert_dense_cs(kind, dense) ==
    LET nm      == nmajor(kind, dense.nrows, dense.ncols)
        lanes   == [k \in 1..nm |-> DenseLaneScan(kind, dense, k - 1)]
        entries == Flatten(lanes)
        offsets == <<0>> \o [k \in 1..(nm - 1) |->
                               Len(Flatten(SubSeq(lanes, 1, k)))]
    IN  Ok(from_parts_unchecked(kind, dense.nrows, dense.ncols, offsets,
                                [p \in 1..Len(entries) |-> entries[p][1]],
                                [p \in 1..Len(entries) |-> entries[p][2]]),
           dense.nrows * dense.ncols, 0)

convert_dense_csr(dense) == convert_dense_cs("CSR", dense)

convert_dense_csc(dense) == convert_dense_cs("CSC", dense)

\* Mutant: the entries are appended in the storage order of the source
\* instead of lane by lane.
convert_cs_transposed_source_order(kind, cs) ==
    LET lanes   == minor_lane_iter(cs)
        counts  == [k \in 1..Len(lanes) |-> Len(lanes[k])]
        entries == triplet_iter(cs)
    IN  Ok(from_parts_unchecked(kind, cs.nrows, cs.ncols, CountToOffsetIter(counts),
                                [p \in 1..Len(entries) |-> entries[p][1]],
                                [p \in 1..Len(entries) |-> entries[p][3]]),
           Len(entries), 0)

\* Mutant: each offset includes the count of its own lane.
convert_cs_transposed_inclusive(kind, cs) ==
    LET lanes   == minor_lane_iter(cs)
        counts  == [k \in 1..Len(lanes) |-> Len(lanes[k])]
        entries == Flatten(lanes)
    IN  Ok(from_parts_unchecked(kind, cs.nrows, cs.ncols,
                                [k \in 1..Len(counts) |-> SumSeq(SubSeq(counts, 1, k))],
                                [p \in 1..Len(entries) |-> entries[p][1]],
                                [p \in 1..Len(entries) |-> entries[p][2]]),
           Len(entries), 0)

\* The body shared by convert_csr_csc and convert_csc_csr: one (count,
\* (indices, data)) per minor lane of the source, the counts turned into
\* offsets, the lanes appended one after the other.
convert_cs_transposed(kind, cs) ==
    LET lanes   == minor_lane_iter(cs)
        counts  == [k \in 1..Len(lanes) |-> Len(lanes[k])]
        entries == Flatten(lanes)
    IN  Ok(from_parts_unchecked(kind, cs.nrows, cs.ncols, CountToOffsetIter(counts),
                                [p \in 1..Len(entries) |-> entries[p][1]],
                                [p \in 1..Len(entries) |-> entries[p][2]]),
           Len(entries), 0)

convert_csr_csc(csr) == convert_cs_transposed("CSC", csr)

convert_csc_csr(csc) == convert_cs_transposed("CSR", csc)

(***************************************************************************)
(* Scalar product and division (ops/serial/scalar.rs).  The element type   *)
(* is an integer type, as in the tests of the other modules (i32, i64).    *)
(***************************************************************************)
\* The scalars handed to the scalar operations.
Scalars == {-2, 0, 1, 2}

Abs(x) == IF x < 0 THEN 0 - x ELSE x

\* x.clone() * scalar.clone()
Mul_mul(x, s) == x * s

\* x.clone() / scalar.clone() on integers: the quotient rounded towards
\* zero; defined for a divisor that is not zero (a zero divisor aborts).
Div_div(x, s) ==
    IF (x < 0) = (s < 0) THEN Abs(x) \div Abs(s) ELSE 0 - (Abs(x) \div Abs(s))

\* Mutant: a product that is zero is not stored.
sp_cs_scalar_prod_pruning(cs, scalar) ==
    LET rows    == cs.nrows
        columns == cs.ncols
        keep    == {p \in DOMAIN cs.data : Mul_mul(cs.data[p], scalar) # 0}
        pos     == SortKeys({<<p, 0>> : p \in keep})
    IN  Ok(from_parts_unchecked(cs.kind, rows, columns, cs.offsets,
                                [k \in 1..Len(pos) |-> cs.indices[pos[k][1]]],
                                [k \in 1..Len(pos) |-> Mul_mul(cs.data[pos[k][1]], scalar)]),
           Len(cs.data), 0)

\* let (offsets, indices, data) = cs.disassemble();
\* data.iter().map(|x| x.clone() * scalar.clone()).collect();
\* from_parts_unchecked(rows, columns, offsets, indices, data)
sp_cs_scalar_prod(cs, scalar) ==
    LET rows    == cs.nrows
        columns == cs.ncols
        offsets == cs.offsets
        indices == cs.indices
        data    == [p \in DOMAIN cs.data |-> Mul_mul(cs.data[p], scalar)]
    IN  Ok(from_parts_unchecked(cs.kind, rows, columns, offsets, indices, data),
           Len(cs.data), 0)

\* The same with x.clone() / scalar.clone(); the first division by zero
\* aborts the call.
sp_cs_scalar_div(cs, scalar) ==
    LET rows    == cs.nrows
        columns == cs.ncols
        offsets == cs.offsets
        indices == cs.indices
    IN  IF scalar = 0 /\ cs.data # <<>> THEN Panic(1, 0)
        ELSE Ok(from_parts_unchecked(cs.kind, rows, columns, offsets, indices,
                                     [p \in DOMAIN cs.data |-> Div_div(cs.data[p], scalar)]),
                Len(cs.data), 0)

(***************************************************************************)
(* The state machine.  The caller holds a left operand; a call draws the   *)
(* right operand, runs one routine to its end and leaves its outcome;      *)
(* Return hands the outcome over and the caller may call again.            *)
(***************************************************************************)
NoOperand == [kind |-> "none"]

\* The right operands drawn for the left operand a: every operand of S of
\* the shape of a, and of the operands of another shape those that store at
\* most one entry (dense: hold at most one cell that is not zero).
RightOperands(a, S) ==
    {b \in S :
        \/ shape(b) = shape(a)
        \/ IF b.kind = "Dense"
           THEN Cardinality({p \in DOMAIN b.data : b.data[p] # 0}) <= 1
           ELSE Len(b.data) <= 1}

Init ==
    /\ pc = "idle"
    /\ op = "none"
    /\ rhs = NoOperand
    /\ result = NoValue
    /\ \/ lhs \in CsrMatrices
       \/ lhs \in CscMatrices
       \/ lhs \in DenseMatrices
       \/ \E sh \in Shapes : \E n \in 0..MaxCoo : lhs \in CooMatrices(sh, n)

Call(name, b, r) ==
    /\ pc' = "done"
    /\ op' = name
    /\ rhs' = b
    /\ result' = r
    /\ UNCHANGED lhs

Call_spsub_csr_csc ==
    /\ pc = "idle"
    /\ lhs.kind = "CSR"
    /\ \E b \in RightOperands(lhs, CscMatrices) :
        Call("spsub_csr_csc", b, spsub_csr_csc(lhs, b))

Call_spsub_csc_csr ==
    /\ pc = "idle"
    /\ lhs.kind = "CSC"
    /\ \E b \in RightOperands(lhs, CsrMatrices) :
        Call("spsub_csc_csr", b, spsub_csc_csr(lhs, b))

Call_spsub_csc_csc ==
    /\ pc = "idle"
    /\ lhs.kind = "CSC"
    /\ \E b \in RightOperands(lhs, CscMatrices) :
        Call("spsub_csc_csc", b, spsub_csc_csc(lhs, b))

Call_spsub_csr_csr ==
    /\ pc = "idle"
    /\ lhs.kind = "CSR"
    /\ \E b \in RightOperands(lhs, CsrMatrices) :
        Call("spsub_csr_csr", b, spsub_csr_csr(lhs, b))

Call_spsub_dense_csc ==
    /\ pc = "idle"
    /\ lhs.kind = "Dense"
    /\ \E b \in RightOperands(lhs, CscMatrices) :
        Call("spsub_dense_csc", b, spsub_dense_csc(lhs, b))

Call_spsub_csc_dense ==
    /\ pc = "idle"
    /\ lhs.kind = "CSC"
    /\ \E b \in RightOperands(lhs, DenseMatrices) :
        Call("spsub_csc_dense", b, spsub_csc_dense(lhs, b))

Call_spsub_dense_csr ==
    /\ pc = "idle"
    /\ lhs.kind = "Dense"
    /\ \E b \in RightOperands(lhs, CsrMatrices) :
        Call("spsub_dense_csr", b, spsub_dense_csr(lhs, b))

Call_spsub_csr_dense ==
    /\ pc = "idle"
    /\ lhs.kind = "CSR"
    /\ \E b \in RightOperands(lhs, DenseMatrices) :
        Call("spsub_csr_dense", b, spsub_csr_dense(lhs, b))

Call_convert_coo_csr ==
    /\ pc = "idle"
    /\ lhs.kind = "COO"
    /\ \E r \in convert_coo_csr(lhs) : Call("convert_coo_csr", NoOperand, r)

Call_convert_coo_csc ==
    /\ pc = "idle"
    /\ lhs.kind = "COO"
    /\ \E r \in convert_coo_csc(lhs) : Call("convert_coo_csc", NoOperand, r)

\* The caller takes the outcome and keeps its operand.
Return ==
    /\ pc = "done"
    /\ pc' = "idle"
    /\ op' = "none"
    /\ rhs' = NoOperand
    /\ result' = NoValue
    /\ UNCHANGED lhs

\* A conversion called on the operand the caller holds.
Call_convert_dense_csr ==
    /\ pc = "idle"
    /\ lhs.kind = "Dense"
    /\ Call("convert_dense_csr", NoOperand, convert_dense_csr(lhs))

Call_convert_dense_csc ==
    /\ pc = "idle"
    /\ lhs.kind = "Dense"
    /\ Call("convert_dense_csc", NoOperand, convert_dense_csc(lhs))

Call_convert_csr_csc ==
    /\ pc = "idle"
    /\ lhs.kind = "CSR"
    /\ Call("convert_csr_csc", NoOperand, convert_csr_csc(lhs))

Call_convert_csc_csr ==
    /\ pc = "idle"
    /\ lhs.kind = "CSC"
    /\ Call("convert_csc_csr", NoOperand, convert_csc_csr(lhs))

Call_convert_dense_coo ==
    /\ pc = "idle"
    /\ lhs.kind = "Dense"
    /\ Call("convert_dense_coo", NoOperand, convert_dense_coo(lhs))

Call_convert_coo_dense ==
    /\ pc = "idle"
    /\ lhs.kind = "COO"
    /\ Call("convert_coo_dense", NoOperand, convert_coo_dense(lhs))

Call_convert_csr_coo ==
    /\ pc = "idle"
    /\ lhs.kind = "CSR"
    /\ Call("convert_csr_coo", NoOperand, convert_csr_coo(lhs))

Call_convert_csc_coo ==
    /\ pc = "idle"
    /\ lhs.kind = "CSC"
    /\ Call("convert_csc_coo", NoOperand, convert_csc_coo(lhs))

Call_convert_csr_dense ==
    /\ pc = "idle"
    /\ lhs.kind = "CSR"
    /\ Call("convert_csr_dense", NoOperand, convert_csr_dense(lhs))

Call_convert_csc_dense ==
    /\ pc = "idle"
    /\ lhs.kind = "CSC"
    /\ Call("convert_csc_dense", NoOperand, convert_csc_dense(lhs))

\* The caller hands the value a conversion returned to the next conversion,
\* the way the round trips of the tests do (serial.rs, mod tests): rhs
\* records that value, lhs stays the operand the chain started from.
After(ops) == pc = "done" /\ op \in ops /\ result.kind = "Ok"

Then(name, a, r) ==
    /\ pc' = "done"
    /\ op' = name
    /\ rhs' = a
    /\ result' = r
    /\ UNCHANGED lhs

\* coo -> csr -> dense and coo -> csc -> dense
Then_convert_csr_dense ==
    /\ After({"convert_coo_csr"})
    /\ Then("convert_csr_dense", result.value, convert_csr_dense(result.value))

Then_convert_csc_dense ==
    /\ After({"convert_coo_csc"})
    /\ Then("convert_csc_dense", result.value, convert_csc_dense(result.value))

\* csr -> csc -> csr and csc -> csr -> csc
Then_convert_csc_csr ==
    /\ After({"convert_csr_csc"})
    /\ Then("convert_csc_csr", result.value, convert_csc_csr(result.value))

Then_convert_csr_csc ==
    /\ After({"convert_csc_csr"})
    /\ Then("convert_csr_csc", result.value, convert_csr_csc(result.value))

\* csr -> dense -> csr and csc -> dense -> csc
Then_convert_dense_csr ==
    /\ After({"convert_csr_dense"})
    /\ Then("convert_dense_csr", result.value, convert_dense_csr(result.value))

Then_convert_dense_csc ==
    /\ After({"convert_csc_dense"})
    /\ Then("convert_dense_csc", result.value, convert_dense_csc(result.value))

\* dense -> coo -> dense and coo -> dense -> coo -> dense
Then_convert_coo_dense ==
    /\ After({"convert_dense_coo"})
    /\ Then("convert_coo_dense", result.value, convert_coo_dense(result.value))

Then_convert_dense_coo ==
    /\ After({"convert_coo_dense"})
    /\ Then("convert_dense_coo", result.value, convert_dense_coo(result.value))

\* csr -> coo -> csr and csc -> coo -> csc; csr -> coo -> csc and
\* csc -> coo -> csr; dense -> coo -> csr and dense -> coo -> csc
Then_convert_coo_csr ==
    /\ After({"convert_csr_coo", "convert_csc_coo", "convert_dense_coo"})
    /\ \E r \in convert_coo_csr(result.value) :
          Then("convert_coo_csr", result.value, r)

Then_convert_coo_csc ==
    /\ After({"convert_csr_coo", "convert_csc_coo", "convert_dense_coo"})
    /\ \E r \in convert_coo_csc(result.value) :
          Then("convert_coo_csc", result.value, r)

\* A scalar operation called on the compressed operand the caller holds;
\* rhs records the scalar.
ScalarOperand(s) == [kind |-> "Scalar", value |-> s]

Call_sp_cs_scalar_prod ==
    /\ pc = "idle"
    /\ lhs.kind \in {"CSR", "CSC"}
    /\ \E s \in Scalars :
          Call("sp_cs_scalar_prod", ScalarOperand(s), sp_cs_scalar_prod(lhs, s))

Call_sp_cs_scalar_div ==
    /\ pc = "idle"
    /\ lhs.kind \in {"CSR", "CSC"}
    /\ \E s \in Scalars :
          Call("sp_cs_scalar_div", ScalarOperand(s), sp_cs_scalar_div(lhs, s))

\* The merge of a sparse-sparse subtraction taken one call of next at a
\* time.  The two streams handed to TripletSubtractionIter by the function
\* called name.
MergeStreamsOf(name, a, b) ==
    CASE name = "spsub_csc_csc" -> <<triplet_iter(a), triplet_iter(b)>>
      [] name = "spsub_csr_csc" -> <<triplet_iter(a), MinorLaneTriplets(b)>>

\* The function has passed its shape check and built the iterator; nothing
\* is emitted yet.  nones counts the calls of next that returned None.
Iter(name, b) ==
    LET st == MergeStreamsOf(name, lhs, b)
    IN  /\ pc' = "merging"
        /\ op' = name
        /\ rhs' = b
        /\ result' = [kind |-> "Iter", left |-> st[1], right |-> st[2],
                      iter |-> TripletSubtractionIter(st[1], st[2]),
                      emitted |-> <<>>, nones |-> 0]
        /\ UNCHANGED lhs

Iter_spsub_csc_csc ==
    /\ pc = "idle"
    /\ lhs.kind = "CSC"
    /\ \E b \in {m \in CscMatrices : shape(m) = shape(lhs)} : Iter("spsub_csc_csc", b)

Iter_spsub_csr_csc ==
    /\ pc = "idle"
    /\ lhs.kind = "CSR"
    /\ \E b \in {m \in CscMatrices : shape(m) = shape(lhs)} : Iter("spsub_csr_csc", b)

\* One call of next: for (i, j, v) in added_triplets pulls until the first
\* None; a caller may poll an iterator again after that.
Iter_next ==
    /\ pc = "merging"
    /\ result.nones < MaxPolls
    /\ LET n == TripletSubtractionIter_next(result.iter)
       IN  result' = IF n.item = None
                     THEN [result EXCEPT !.iter = n.state, !.nones = @ + 1]
                     ELSE [result EXCEPT !.iter = n.state,
                                         !.emitted = Append(@, n.item[1])]
    /\ UNCHANGED <<pc, op, lhs, rhs>>

\* The loop has seen None: the function builds and returns its result.
Iter_finish ==
    /\ pc = "merging"
    /\ result.nones >= 1
    /\ pc' = "done"
    /\ result' = IF op = "spsub_csc_csc" THEN spsub_csc_csc(lhs, rhs)
                  ELSE spsub_csr_csc(lhs, rhs)
    /\ UNCHANGED <<op, lhs, rhs>>

Next ==
    \/ Call_spsub_csr_csc
    \/ Call_spsub_csc_csr
    \/ Call_spsub_csc_csc
    \/ Call_spsub_csr_csr
    \/ Call_spsub_dense_csc
    \/ Call_spsub_csc_dense
    \/ Call_spsub_dense_csr
    \/ Call_spsub_csr_dense
    \/ Call_convert_coo_csr
    \/ Call_convert_coo_csc
    \/ Call_convert_dense_csr
    \/ Call_convert_dense_csc
    \/ Call_convert_csr_csc
    \/ Call_convert_csc_csr
    \/ Return

Spec == Init /\ [][Next]_vars

\* The conversions alone, chained into the round trips.
ConvNext ==
    \/ Call_convert_coo_csr
    \/ Call_convert_coo_csc
    \/ Call_convert_dense_csr
    \/ Call_convert_dense_csc
    \/ Call_convert_csr_csc
    \/ Call_convert_csc_csr
    \/ Call_convert_dense_coo
    \/ Call_convert_coo_dense
    \/ Call_convert_csr_coo
    \/ Call_convert_csc_coo
    \/ Call_convert_csr_dense
    \/ Call_convert_csc_dense
    \/ Then_convert_csr_dense
    \/ Then_convert_csc_dense
    \/ Then_convert_csc_csr
    \/ Then_convert_csr_csc
    \/ Then_convert_dense_csr
    \/ Then_convert_dense_csc
    \/ Then_convert_coo_dense
    \/ Then_convert_dense_coo
    \/ Then_convert_coo_csr
    \/ Then_convert_coo_csc
    \/ Return

ConvSpec == Init /\ [][ConvNext]_vars

\* The caller holds a compressed operand.
CsInit ==
    /\ pc = "idle"
    /\ op = "none"
    /\ rhs = NoOperand
    /\ result = NoValue
    /\ \/ lhs \in CsrMatrices
       \/ lhs \in CscMatrices

ScalarNext ==
    \/ Call_sp_cs_scalar_prod
    \/ Call_sp_cs_scalar_div
    \/ Return

\* The scalar operations alone.
ScalarSpec == CsInit /\ [][ScalarNext]_vars

MergeNext ==
    \/ Iter_spsub_csc_csc
    \/ Iter_spsub_csr_csc
    \/ Iter_next
    \/ Iter_finish
    \/ Return

\* The merge of the sparse-sparse subtraction, one call of next per step.
MergeSpec == CsInit /\ [][MergeNext]_vars

\* The loop of spsub_csc_csc: for (i, j, v) in added_triplets keeps calling
\* next until it returns None.
LoopNext ==
    \/ Iter_spsub_csc_csc
    \/ Iter_next
    \/ Iter_finish
    \/ Return

MergeFairSpec == CsInit /\ [][LoopNext]_vars /\ WF_vars(Iter_next)

\* The sparse-sparse subtractions alone.
SubNext ==
    \/ Call_spsub_csr_csc
    \/ Call_spsub_csc_csr
    \/ Call_spsub_csc_csc
    \/ Call_spsub_csr_csr
    \/ Return

SubSpec == CsInit /\ [][SubNext]_vars

(***************************************************************************)
(* What a matrix denotes, read from its buffers independently of the       *)
(* iterators above.                                                        *)
(***************************************************************************)
\* The major lane that holds position p (1-based) of the index buffer.
MajorAt(m, p) ==
    Cardinality({k \in DOMAIN m.offsets :
                    k <= nmajor(m.kind, m.nrows, m.ncols) /\ m.offsets[k] <= p - 1}) - 1

\* The <<row, col>> of the entry stored at position p.
PosAt(m, p) ==
    IF m.kind = "CSR" THEN <<MajorAt(m, p), m.indices[p]>>
    ELSE <<m.indices[p], MajorAt(m, p)>>

StoredPositions(m) == {PosAt(m, p) : p \in DOMAIN m.indices}

Entries(m) == {<<PosAt(m, p), m.data[p]>> : p \in DOMAIN m.indices}

\* toDense(m) at (row, col): the sum of what m stores there, 0 if nothing.
CsCell(m, row, col) ==
    SumSeq([p \in DOMAIN m.indices |->
              IF PosAt(m, p) = <<row, col>> THEN m.data[p] ELSE 0])

CooPositions(c) == {<<c.rows[p], c.cols[p]>> : p \in DOMAIN c.rows}

\* The sum of the values of the triplets of c at (row, col).
CooCell(c, row, col) ==
    SumSeq([p \in DOMAIN c.rows |->
              IF <<c.rows[p], c.cols[p]>> = <<row, col>> THEN c.vals[p] ELSE 0])

SparseSparseOps == {"spsub_csr_csc", "spsub_csc_csr", "spsub_csc_csc", "spsub_csr_csr"}

DenseSparseOps == {"spsub_dense_csc", "spsub_csc_dense", "spsub_dense_csr",
                   "spsub_csr_dense"}

SpsubOps == SparseSparseOps \cup DenseSparseOps

\* The outcome of the spsub function called name on the operands a and b.
SpsubOutcome(name, a, b) ==
    CASE name = "spsub_csr_csc"   -> spsub_csr_csc(a, b)
      [] name = "spsub_csc_csr"   -> spsub_csc_csr(a, b)
      [] name = "spsub_csc_csc"   -> spsub_csc_csc(a, b)
      [] name = "spsub_csr_csr"   -> spsub_csr_csr(a, b)
      [] name = "spsub_dense_csc" -> spsub_dense_csc(a, b)
      [] name = "spsub_csc_dense" -> spsub_csc_dense(a, b)
      [] name = "spsub_dense_csr" -> spsub_dense_csr(a, b)
      [] name = "spsub_csr_dense" -> spsub_csr_dense(a, b)

\* An operand of the type of x and of shape sh whose cells are all zero.
BlankLike(x, sh) ==
    IF x.kind = "Dense" THEN DenseMatrix(sh[1], sh[2], [p \in 1..(sh[1] * sh[2]) |-> 0])
    ELSE zeros(x.kind, sh[1], sh[2])

\* The value of cell (row, col) of an operand of either type.
CellOf(x, row, col) ==
    IF x.kind = "Dense" THEN Index(x, row, col) ELSE CsCell(x, row, col)

\* The cursors of a merge r in progress: how many entries of the left and of
\* the right stream have been emitted; left_val / right_val hold an entry
\* that is pulled but not emitted.
LeftPos(r) ==
    Len(r.left) - Len(r.iter.left_iter) - (IF r.iter.left_val # None THEN 1 ELSE 0)

RightPos(r) ==
    Len(r.right) - Len(r.iter.right_iter) - (IF r.iter.right_val # None THEN 1 ELSE 0)

\* A stream of triplets strictly ascending in (major, minor).
StrictlyAscending(ts) == \A p \in 1..(Len(ts) - 1) : LexLess(ts[p], ts[p + 1])

\* The routines that return a compressed matrix.
CsProducingOps ==
    SparseSparseOps \cup {"convert_dense_csr", "convert_dense_csc", "convert_coo_csr",
                          "convert_coo_csc", "convert_csr_csc", "convert_csc_csr"}

\* The operand the routine of the current call was given.
ConvInput == IF rhs = NoOperand THEN lhs ELSE rhs

(***************************************************************************)
(* The claims.                                                             *)
(***************************************************************************)
\* C1: for well-formed compressed A and B of equal shape, each of the four
\* sparse-sparse functions returns Ok(R), R has that shape, stores entries
\* only inside it, and toDense(R) = toDense(A) - toDense(B) at every cell.
C1_SparseSubAgreesWithDense ==
    (pc = "done" /\ op \in SparseSparseOps /\ shape(lhs) = shape(rhs)) =>
        /\ result.kind = "Ok"
        /\ shape(result.value) = shape(lhs)
        /\ StoredPositions(result.value) \subseteq Cells(shape(lhs))
        /\ \A c \in Cells(shape(lhs)) :
              CsCell(result.value, c[1], c[2])
                  = CsCell(lhs, c[1], c[2]) - CsCell(rhs, c[1], c[2])

\* A mixed-orientation call on a 2 x 2 shape where one position is stored by
\* both operands and each operand also stores one the other does not.
C1_Witness ==
    /\ pc = "done"
    /\ op = "spsub_csc_csr"
    /\ shape(lhs) = <<2, 2>>
    /\ shape(rhs) = <<2, 2>>
    /\ StoredPositions(lhs) = {<<0, 1>>, <<1, 0>>}
    /\ StoredPositions(rhs) = {<<0, 1>>, <<1, 1>>}
    /\ CsCell(lhs, 0, 1) = 1
    /\ CsCell(rhs, 1, 1) = 1
    /\ result.kind = "Ok"
    /\ CsCell(result.value, 1, 1) = -1

\* C2: for a well-formed CSR matrix A and a dense D of the same shape,
\* spsub_csr_dense(A, D) returns Ok(R) with R[(row, col)] =
\* toDense(A)[(row, col)] - D[(row, col)] at every cell.
C2_CsrMinusDense ==
    (pc = "done" /\ op = "spsub_csr_dense" /\ shape(lhs) = shape(rhs)) =>
        /\ result.kind = "Ok"
        /\ shape(result.value) = shape(lhs)
        /\ \A c \in Cells(shape(lhs)) :
              Index(result.value, c[1], c[2])
                  = CsCell(lhs, c[1], c[2]) - Index(rhs, c[1], c[2])

\* C3: for operands of equal shape, spsub_dense_csc(D, A), spsub_dense_csr(D, A)
\* and spsub_csc_dense(A, D) return Ok(R) with R = left - right cell by cell;
\* a cell where A stores nothing holds D's value (its negation for
\* spsub_csc_dense).
C3_DenseSparseSub ==
    (/\ pc = "done"
     /\ op \in {"spsub_dense_csc", "spsub_dense_csr", "spsub_csc_dense"}
     /\ shape(lhs) = shape(rhs)) =>
        /\ result.kind = "Ok"
        /\ result.value.kind = "Dense"
        /\ shape(result.value) = shape(lhs)
        /\ \A c \in Cells(shape(lhs)) :
              /\ Index(result.value, c[1], c[2])
                     = CellOf(lhs, c[1], c[2]) - CellOf(rhs, c[1], c[2])
              /\ (op # "spsub_csc_dense" /\ c \notin StoredPositions(rhs)) =>
                     Index(result.value, c[1], c[2]) = Index(lhs, c[1], c[2])
              /\ (op = "spsub_csc_dense" /\ c \notin StoredPositions(lhs)) =>
                     Index(result.value, c[1], c[2]) = 0 - Index(rhs, c[1], c[2])

\* spsub_dense_csc on a 1 x 2 shape whose sparse operand stores (0, 1) only.
C3_Witness ==
    /\ pc = "done"
    /\ op = "spsub_dense_csc"
    /\ shape(lhs) = <<1, 2>>
    /\ shape(rhs) = <<1, 2>>
    /\ StoredPositions(rhs) = {<<0, 1>>}
    /\ CsCell(rhs, 0, 1) = 1
    /\ Index(lhs, 0, 0) = 1
    /\ result.kind = "Ok"
    /\ Index(result.value, 0, 0) = 1
    /\ Index(result.value, 0, 1) = Index(lhs, 0, 1) - 1

\* C4: each of the eight spsub functions, given operands that differ in the
\* number of rows or of columns, returns Err of kind InvalidPattern, having
\* pulled no entry from either operand and written no dense cell, and
\* constructs no result.
C4_ShapeMismatchFailsFirst ==
    (pc = "done" /\ op \in SpsubOps /\ shape(lhs) # shape(rhs)) =>
        /\ result.kind = "Err"
        /\ result.err.kind = "InvalidPattern"
        /\ result.reads = 0
        /\ result.writes = 0
        /\ result.value = NoValue

\* spsub_csc_dense on operands that differ in the number of columns only,
\* where the sparse operand stores an entry and the dense one has cells.
C4_Witness ==
    /\ pc = "done"
    /\ op = "spsub_csc_dense"
    /\ shape(lhs) = <<1, 2>>
    /\ shape(rhs) = <<1, 3>>
    /\ nnz(lhs) = 1
    /\ Index(rhs, 0, 0) = 1
    /\ result.kind = "Err"

\* C5 as stated: the error of a shape mismatch carries the two operand
\* shapes, so a call with a right operand of another shape yields an error
\* value different from this one.
C5_ErrorCarriesShapes ==
    (pc = "done" /\ op \in SpsubOps /\ result.kind = "Err") =>
        \A sh \in Shapes :
            (sh # shape(lhs) /\ sh # shape(rhs)) =>
                SpsubOutcome(op, lhs, BlankLike(rhs, sh)).err # result.err

\* C5 as amended: the error of a shape mismatch is the kind InvalidPattern
\* with one fixed message; it carries no shape, and a call with a right
\* operand of any other mismatching shape yields the same error value.
C5_ErrorIsFixed ==
    (pc = "done" /\ op \in SpsubOps /\ result.kind = "Err") =>
        /\ result.err =
              [kind |-> "InvalidPattern",
               message |-> "The two matrices have differing shapes (both should be M x N)"]
        /\ \A sh \in Shapes :
              sh # shape(lhs) =>
                  SpsubOutcome(op, lhs, BlankLike(rhs, sh)).err = result.err

\* A failed spsub_dense_csc call on a 2 x 2 and a 1 x 3 operand.
C5_Witness ==
    /\ pc = "done"
    /\ op = "spsub_dense_csc"
    /\ shape(lhs) = <<2, 2>>
    /\ shape(rhs) = <<1, 3>>
    /\ result.kind = "Err"
    /\ result.err.kind = "InvalidPattern"

\* C6: every call of every spsub function on well-formed operands of any
\* shapes ends with Ok(result) or Err(InvalidPattern); none aborts.
C6_NoCallAborts ==
    (pc = "done" /\ op \in SpsubOps) =>
        \/ result.kind = "Ok"
        \/ result.kind = "Err" /\ result.err.kind = "InvalidPattern"

\* C7: for every compressed A (explicit zeros allowed) and the empty
\* compressed matrix of A's shape, in each of the four orientation pairings,
\* the difference is Ok(R) where R has A's orientation, shape, stored
\* positions and values.
C7_SubtractiveIdentity ==
    (/\ pc = "done"
     /\ op \in SparseSparseOps
     /\ rhs = zeros(rhs.kind, lhs.nrows, lhs.ncols)) =>
        /\ result.kind = "Ok"
        /\ result.value.kind = lhs.kind
        /\ shape(result.value) = shape(lhs)
        /\ nnz(result.value) = nnz(lhs)
        /\ Entries(result.value) = Entries(lhs)

\* spsub_csr_csc of a 2 x 2 matrix storing an explicit zero and a one, and
\* the empty column-major matrix.
C7_Witness ==
    /\ pc = "done"
    /\ op = "spsub_csr_csc"
    /\ shape(lhs) = <<2, 2>>
    /\ rhs = zeros("CSC", 2, 2)
    /\ Entries(lhs) = {<<<<0, 1>>, 0>>, <<<<1, 0>>, 1>>}
    /\ result.kind = "Ok"
    /\ nnz(result.value) = 2

\* C8: for equal-shape A and B the stored positions of the difference are
\* exactly those of A united with those of B, each stored once, so
\* nnz(R) = nnz(A) + nnz(B) - |stored in both|; a position whose difference
\* is zero stays stored.
C8_NeverPrunes ==
    (pc = "done" /\ op \in SparseSparseOps /\ shape(lhs) = shape(rhs)) =>
        /\ result.kind = "Ok"
        /\ StoredPositions(result.value) = StoredPositions(lhs) \cup StoredPositions(rhs)
        /\ nnz(result.value) = nnz(lhs) + nnz(rhs)
               - Cardinality(StoredPositions(lhs) \cap StoredPositions(rhs))

\* subtract(A, A) for an A that stores two ones: both positions stay stored
\* as explicit zeros.
C8_Witness ==
    /\ pc = "done"
    /\ op = "spsub_csc_csc"
    /\ lhs = rhs
    /\ nnz(lhs) = 2
    /\ lhs.data = <<1, 1>>
    /\ result.kind = "Ok"
    /\ result.value.data = <<0, 0>>

\* C9: for every coordinate matrix C, convert_coo_csr(C) and
\* convert_coo_csc(C) store exactly one entry per distinct (row, col) of C,
\* whose value is the sum of the values of the triplets of C there.
C9_DuplicatesSummed ==
    (pc = "done" /\ op \in {"convert_coo_csr", "convert_coo_csc"}) =>
        /\ result.kind = "Ok"
        /\ shape(result.value) = shape(lhs)
        /\ StoredPositions(result.value) = CooPositions(lhs)
        /\ nnz(result.value) = Cardinality(CooPositions(lhs))
        /\ \A c \in CooPositions(lhs) :
              CsCell(result.value, c[1], c[2]) = CooCell(lhs, c[1], c[2])

\* Three triplets, the first and the last at the same (row, col), another
\* one between them: two entries are stored, the duplicate's value is 2.
C9_Witness ==
    /\ pc = "done"
    /\ op = "convert_coo_csr"
    /\ Len(lhs.rows) = 3
    /\ <<lhs.rows[1], lhs.cols[1]>> = <<lhs.rows[3], lhs.cols[3]>>
    /\ <<lhs.rows[2], lhs.cols[2]>> # <<lhs.rows[1], lhs.cols[1]>>
    /\ lhs.vals = <<1, 1, 1>>
    /\ result.kind = "Ok"
    /\ nnz(result.value) = 2
    /\ CsCell(result.value, lhs.rows[1], lhs.cols[1]) = 2

\* C10: for every coordinate matrix C in which no (row, col) occurs twice,
\* nnz(convert_coo_csr(C)) = nnz(C) and nnz(convert_coo_csc(C)) = nnz(C),
\* explicit zeros included.
C10_NnzKeptWithoutDuplicates ==
    (/\ pc = "done"
     /\ op \in {"convert_coo_csr", "convert_coo_csc"}
     /\ Cardinality(CooPositions(lhs)) = Len(lhs.rows)) =>
        /\ result.kind = "Ok"
        /\ nnz(result.value) = Len(lhs.vals)

\* Three triplets at three positions of a 2 x 2 shape, two of them in the
\* same column of different rows, one value an explicit zero.
C10_Witness ==
    /\ pc = "done"
    /\ op = "convert_coo_csc"
    /\ shape(lhs) = <<2, 2>>
    /\ Len(lhs.rows) = 3
    /\ Cardinality(CooPositions(lhs)) = 3
    /\ lhs.cols[1] = lhs.cols[2]
    /\ lhs.vals[1] = 0
    /\ result.kind = "Ok"
    /\ nnz(result.value) = 3

\* C11: for every coordinate matrix C, duplicates or not, the dense matrix
\* of convert_coo_csr(C) and that of convert_coo_csc(C) equal
\* convert_coo_dense(C) cell by cell.
C11_CooCsAgreesWithCooDense ==
    (/\ pc = "done"
     /\ lhs.kind = "COO"
     /\ rhs # NoOperand
     /\ op \in {"convert_csr_dense", "convert_csc_dense"}) =>
        /\ result.kind = "Ok"
        /\ convert_coo_dense(lhs).kind = "Ok"
        /\ result.value = convert_coo_dense(lhs).value
        /\ \A c \in Cells(shape(lhs)) :
              Index(result.value, c[1], c[2]) = CooCell(lhs, c[1], c[2])

\* coo -> csc -> dense of three triplets on a 2 x 2 shape, two of them at
\* (1, 0), the third at (0, 1).
C11_Witness ==
    /\ pc = "done"
    /\ op = "convert_csc_dense"
    /\ lhs.kind = "COO"
    /\ shape(lhs) = <<2, 2>>
    /\ CooPositions(lhs) = {<<1, 0>>, <<0, 1>>}
    /\ lhs.vals = <<1, 1, 1>>
    /\ CooCell(lhs, 1, 0) = 2
    /\ rhs.kind = "CSC"
    /\ nnz(rhs) = 2
    /\ result.kind = "Ok"
    /\ Index(result.value, 1, 0) = 2
    /\ Index(result.value, 0, 1) = 1

\* C12: for every well-formed compressed M, explicit zeros and empty lanes
\* included, csr -> csc -> csr and csc -> csr -> csc give M back: the same
\* shape, offsets, minor indices and values.
C12_OrientationRoundTrip ==
    (/\ pc = "done"
     /\ rhs # NoOperand
     /\ \/ lhs.kind = "CSR" /\ op = "convert_csc_csr"
        \/ lhs.kind = "CSC" /\ op = "convert_csr_csc") =>
        /\ result.kind = "Ok"
        /\ result.value = lhs

\* csr -> csc -> csr of a 2 x 2 matrix storing an explicit zero at (0, 1)
\* and a one at (1, 0): the second row-major lane starts at offset 1.
C12_Witness ==
    /\ pc = "done"
    /\ op = "convert_csc_csr"
    /\ lhs.kind = "CSR"
    /\ shape(lhs) = <<2, 2>>
    /\ Entries(lhs) = {<<<<0, 1>>, 0>>, <<<<1, 0>>, 1>>}
    /\ rhs.kind = "CSC"
    /\ rhs.indices = <<1, 0>>
    /\ result.kind = "Ok"
    /\ result.value.offsets = <<0, 1>>

\* C13: for every well-formed compressed M that stores no explicit zero,
\* csr -> dense -> csr and csc -> dense -> csc give M back: the same
\* offsets, minor indices and values.
C13_DenseRoundTrip ==
    (/\ pc = "done"
     /\ rhs # NoOperand
     /\ \/ lhs.kind = "CSR" /\ op = "convert_dense_csr"
        \/ lhs.kind = "CSC" /\ op = "convert_dense_csc"
     /\ \A p \in DOMAIN lhs.data : lhs.data[p] # 0) =>
        /\ result.kind = "Ok"
        /\ result.value = lhs

\* C14: for every dense matrix D, dense -> coo -> dense gives D back cell by
\* cell.
C14_DenseCooDense ==
    (/\ pc = "done"
     /\ lhs.kind = "Dense"
     /\ rhs # NoOperand
     /\ op = "convert_coo_dense") =>
        /\ result.kind = "Ok"
        /\ result.value = lhs

\* dense -> coo -> dense of the 2 x 2 matrix whose only zero is at (1, 0):
\* three triplets, (0, 0) first and (0, 1) before (1, 1).
C14_Witness ==
    /\ pc = "done"
    /\ op = "convert_coo_dense"
    /\ lhs.kind = "Dense"
    /\ shape(lhs) = <<2, 2>>
    /\ lhs.data = <<1, 0, 1, 1>>
    /\ rhs.kind = "COO"
    /\ rhs.rows = <<0, 0, 1>>
    /\ rhs.cols = <<0, 1, 1>>
    /\ result.kind = "Ok"
    /\ Index(result.value, 0, 1) = 1
    /\ Index(result.value, 1, 0) = 0

\* C15: for every coordinate matrix C, duplicates and explicit zeros or not,
\* coo -> dense -> coo -> dense equals convert_coo_dense(C), and each cell of
\* it is the sum of the values of the triplets of C at that cell.
C15_CooDenseCooDense ==
    (/\ pc = "done"
     /\ lhs.kind = "COO"
     /\ rhs # NoOperand
     /\ op = "convert_coo_dense") =>
        /\ result.kind = "Ok"
        /\ convert_coo_dense(lhs).kind = "Ok"
        /\ result.value = convert_coo_dense(lhs).value
        /\ \A c \in Cells(shape(lhs)) :
              Index(result.value, c[1], c[2]) = CooCell(lhs, c[1], c[2])

\* Three triplets on a 1 x 2 shape: two ones at (0, 1) and an explicit zero
\* at (0, 0); the coordinate matrix read back from the dense one holds the
\* single triplet (0, 1, 2).
C15_Witness ==
    /\ pc = "done"
    /\ op = "convert_coo_dense"
    /\ lhs.kind = "COO"
    /\ shape(lhs) = <<1, 2>>
    /\ lhs.cols = <<1, 0, 1>>
    /\ lhs.vals = <<1, 0, 1>>
    /\ rhs.kind = "COO"
    /\ rhs.cols = <<1>>
    /\ rhs.vals = <<2>>
    /\ result.kind = "Ok"
    /\ Index(result.value, 0, 1) = 2

\* C16: for every well-formed compressed M, explicit zeros included,
\* csr -> coo -> csr and csc -> coo -> csc give M back: the same offsets,
\* minor indices and values.
C16_CooRoundTrip ==
    (/\ pc = "done"
     /\ rhs # NoOperand
     /\ \/ lhs.kind = "CSR" /\ op = "convert_coo_csr"
        \/ lhs.kind = "CSC" /\ op = "convert_coo_csc") =>
        /\ result.kind = "Ok"
        /\ result.value = lhs

\* csc -> coo -> csc of a 2 x 2 matrix storing an explicit zero at (1, 0)
\* and a one at (0, 1).
C16_Witness ==
    /\ pc = "done"
    /\ op = "convert_coo_csc"
    /\ lhs.kind = "CSC"
    /\ shape(lhs) = <<2, 2>>
    /\ Entries(lhs) = {<<<<1, 0>>, 0>>, <<<<0, 1>>, 1>>}
    /\ rhs.kind = "COO"
    /\ rhs.rows = <<1, 0>>
    /\ rhs.cols = <<0, 1>>
    /\ result.kind = "Ok"
    /\ nnz(result.value) = 2

\* C17 as stated: every compressed matrix returned by the conversions to a
\* compressed format and by the sparse-sparse spsub functions has nmajor + 1
\* offsets, non-decreasing, the first 0 and the last nnz.
C17_OffsetsCloseWithNnz ==
    (pc = "done" /\ op \in CsProducingOps /\ result.kind = "Ok") =>
        LET m  == result.value
            nm == nmajor(m.kind, m.nrows, m.ncols)
        IN  /\ Len(m.offsets) = nm + 1
            /\ \A k \in 1..nm : m.offsets[k] <= m.offsets[k + 1]
            /\ m.offsets[1] = 0
            /\ m.offsets[nm + 1] = nnz(m)

\* C17 as amended: the offsets sequence has one entry per major lane, the
\* start of the lane, and no closing nnz entry: its length is nmajor (the
\* conversions from dense return the single offset 0 for a matrix without
\* major lanes); it is non-decreasing, starts with 0 and no entry exceeds
\* nnz, the last lane running to nnz.
C17_OffsetsPerLane ==
    (pc = "done" /\ op \in CsProducingOps /\ result.kind = "Ok") =>
        LET m  == result.value
            nm == nmajor(m.kind, m.nrows, m.ncols)
        IN  /\ Len(m.offsets) =
                  IF nm = 0 /\ op \in {"convert_dense_csr", "convert_dense_csc"}
                  THEN 1 ELSE nm
            /\ \A k \in 1..(Len(m.offsets) - 1) : m.offsets[k] <= m.offsets[k + 1]
            /\ \A k \in 1..Len(m.offsets) : m.offsets[k] <= nnz(m)
            /\ m.offsets # <<>> => m.offsets[1] = 0
            /\ nm = 0 => nnz(m) = 0

\* convert_dense_csr of the 2 x 2 matrix [[1, 1], [0, 1]]: offsets <<0, 2>>
\* for the three stored entries.
C17_Witness ==
    /\ pc = "done"
    /\ op = "convert_dense_csr"
    /\ shape(lhs) = <<2, 2>>
    /\ lhs.data = <<1, 0, 1, 1>>
    /\ result.kind = "Ok"
    /\ result.value.offsets = <<0, 2>>
    /\ nnz(result.value) = 3

C19_DenseCooColumnMajor ==
    (pc = "done" /\ op = "convert_dense_coo") =>
        LET D    == ConvInput
            keys == SortKeys({<<c[2], c[1]>> :
                              c \in {x \in Cells(shape(D)) : Index(D, x[1], x[2]) # 0}})
        IN  /\ result.kind = "Ok"
            /\ result.value.kind = "COO"
            /\ shape(result.value) = shape(D)
            /\ coo_triplet_iter(result.value) =
                  [p \in 1..Len(keys) |->
                     <<keys[p][2], keys[p][1], Index(D, keys[p][2], keys[p][1])>>]

\* The 2 x 2 matrix [[1, 1], [1, 0]]: (0, 0), (1, 0), (0, 1) in that order.
C19_Witness ==
    /\ pc = "done"
    /\ op = "convert_dense_coo"
    /\ rhs = NoOperand
    /\ shape(lhs) = <<2, 2>>
    /\ lhs.data = <<1, 1, 1, 0>>
    /\ result.kind = "Ok"
    /\ result.value.rows = <<0, 1, 0>>
    /\ result.value.cols = <<0, 0, 1>>

\* C20: convert_csr_coo(M) and convert_csc_coo(M) return a coordinate matrix
\* of M's shape with one triplet (row, col, value) per stored entry of M,
\* explicit zeros included, in M's storage order.
C20_CsCooKeepsEntries ==
    (pc = "done" /\ op \in {"convert_csr_coo", "convert_csc_coo"}) =>
        /\ result.kind = "Ok"
        /\ result.value.kind = "COO"
        /\ shape(result.value) = shape(lhs)
        /\ Len(result.value.rows) = nnz(lhs)
        /\ Len(result.value.cols) = nnz(lhs)
        /\ Len(result.value.vals) = nnz(lhs)
        /\ \A p \in 1..nnz(lhs) :
              /\ <<result.value.rows[p], result.value.cols[p]>> = PosAt(lhs, p)
              /\ result.value.vals[p] = lhs.data[p]

\* convert_csc_coo of a 2 x 2 matrix storing an explicit zero at (1, 0) and
\* a one at (0, 1).
C20_Witness ==
    /\ pc = "done"
    /\ op = "convert_csc_coo"
    /\ shape(lhs) = <<2, 2>>
    /\ Entries(lhs) = {<<<<1, 0>>, 0>>, <<<<0, 1>>, 1>>}
    /\ result.kind = "Ok"
    /\ result.value.rows = <<1, 0>>
    /\ result.value.cols = <<0, 1>>
    /\ result.value.vals = <<0, 1>>

C22_AddIsOrderIndependent ==
    (pc = "done" /\ rhs = NoOperand /\ op \in {"convert_coo_csr", "convert_coo_csc"}) =>
        LET kind == IF op = "convert_coo_csr" THEN "CSR" ELSE "CSC"
            ts   == coo_triplet_iter(lhs)
            exchanged(k) == [p \in 1..Len(ts) |->
                               IF p = k THEN ts[k + 1] ELSE IF p = k + 1 THEN ts[k] ELSE ts[p]]
        IN  /\ convert_coo_cs(kind, lhs, "Add::add") = {result}
            /\ \A k \in 1..(Len(ts) - 1) :
                  convert_coo_cs(kind, CooFromTriplets(lhs.nrows, lhs.ncols, exchanged(k)),
                                 "Add::add") = {result}
            /\ (\E p, q \in 1..Len(ts) :
                    /\ <<ts[p][1], ts[p][2]>> = <<ts[q][1], ts[q][2]>>
                    /\ ts[p][3] # ts[q][3]) =>
                  Cardinality(convert_coo_cs(kind, lhs, "Sub::sub")) > 1

\* Three triplets pushed in descending row order, the last two at the same
\* position with the values 0 and 1: one result with Add::add, two possible
\* results with Sub::sub.
C22_Witness ==
    /\ pc = "done"
    /\ op = "convert_coo_csr"
    /\ rhs = NoOperand
    /\ shape(lhs) = <<2, 2>>
    /\ lhs.rows = <<1, 0, 0>>
    /\ lhs.cols = <<0, 1, 1>>
    /\ lhs.vals = <<1, 0, 1>>
    /\ result.kind = "Ok"
    /\ result.value.data = <<1, 1>>
    /\ Cardinality(convert_coo_cs("CSR", lhs, "Sub::sub")) = 2

\* C23: given two streams that are each strictly ascending in (major,
\* minor), the triplets TripletSubtractionIter has emitted are strictly
\* ascending in (major, minor) at every step of the merge, no key twice.
C23_EmittedStrictlyAscending ==
    (/\ pc = "merging"
     /\ StrictlyAscending(result.left)
     /\ StrictlyAscending(result.right)) =>
        \A p \in 1..(Len(result.emitted) - 1) :
            \/ result.emitted[p][1] < result.emitted[p + 1][1]
            \/ /\ result.emitted[p][1] = result.emitted[p + 1][1]
               /\ result.emitted[p][2] < result.emitted[p + 1][2]

\* A drained merge whose left stream of one entry was exhausted first: the
\* two entries of the right stream follow it.
C23_Witness ==
    /\ pc = "merging"
    /\ op = "spsub_csr_csc"
    /\ result.nones = 1
    /\ Len(result.left) = 1
    /\ Len(result.right) = 2
    /\ Len(result.emitted) = 3
    /\ result.emitted[1] = result.left[1]
    /\ result.emitted[3][3] = 0 - result.right[2][3]

C25_MergeTerminates ==
    /\ [](pc = "merging" =>
            ((TripletSubtractionIter_next(result.iter).item = None)
              <=> (/\ LeftPos(result) = Len(result.left)
                   /\ RightPos(result) = Len(result.right))))
    /\ []((pc = "merging" /\ result.nones >= 1) =>
            /\ Len(result.emitted) >= Len(result.left)
            /\ Len(result.emitted) >= Len(result.right)
            /\ Len(result.emitted) <= Len(result.left) + Len(result.right))
    /\ [][(pc = "merging" /\ pc' = "merging") =>
            IF result'.emitted # result.emitted
            THEN /\ result.nones = 0
                 /\ LeftPos(result)' >= LeftPos(result)
                 /\ RightPos(result)' >= RightPos(result)
                 /\ LeftPos(result)' + RightPos(result)'
                        > LeftPos(result) + RightPos(result)
            ELSE /\ result'.nones = result.nones + 1
                 /\ result'.iter = result.iter]_vars
    /\ (pc = "merging" /\ result.nones = 0) ~> (pc = "merging" /\ result.nones >= 1)

\* A merge of two streams of two entries, one key of both: three triplets
\* emitted, and next polled a second time after its first None.
C25_Witness ==
    /\ pc = "merging"
    /\ op = "spsub_csc_csc"
    /\ result.nones = 2
    /\ Len(result.left) = 2
    /\ Len(result.right) = 2
    /\ Len(result.emitted) = 3

\* C26: a mixed-orientation subtraction returns what the same-orientation
\* subtraction returns on the converted right operand, spsub_csr_csc(A, B) =
\* spsub_csr_csr(A, convert_csc_csr(B)) and spsub_csc_csr(A, B) =
\* spsub_csc_csc(A, convert_csr_csc(B)): a matrix of the left operand's
\* orientation with the same offsets, minor indices and values; the right
\* operand read by minor lanes is the stream of the converted operand.
C26_MixedEqualsConverted ==
    (pc = "done" /\ op \in {"spsub_csr_csc", "spsub_csc_csr"}) =>
        LET conv == IF op = "spsub_csr_csc" THEN convert_csc_csr(rhs)
                    ELSE convert_csr_csc(rhs)
            same == IF op = "spsub_csr_csc" THEN spsub_csr_csr(lhs, conv.value)
                    ELSE spsub_csc_csc(lhs, conv.value)
        IN  /\ conv.kind = "Ok"
            /\ conv.value.kind = lhs.kind
            /\ MinorLaneTriplets(rhs) = triplet_iter(conv.value)
            /\ result.kind = same.kind
            /\ result.err = same.err
            /\ result.kind = "Ok" =>
                  /\ result.value.kind = lhs.kind
                  /\ shape(result.value) = shape(same.value)
                  /\ result.value.offsets = same.value.offsets
                  /\ result.value.indices = same.value.indices
                  /\ result.value.data = same.value.data

\* spsub_csr_csc on a 2 x 2 shape whose column-major right operand stores
\* (1, 0) before (0, 1), the reverse of the row-major order.
C26_Witness ==
    /\ pc = "done"
    /\ op = "spsub_csr_csc"
    /\ shape(lhs) = <<2, 2>>
    /\ shape(rhs) = <<2, 2>>
    /\ StoredPositions(lhs) = {<<0, 1>>, <<1, 1>>}
    /\ nnz(rhs) = 2
    /\ PosAt(rhs, 1) = <<1, 0>>
    /\ PosAt(rhs, 2) = <<0, 1>>
    /\ rhs.data = <<1, 1>>
    /\ result.kind = "Ok"
    /\ result.value.kind = "CSR"
    /\ result.value.offsets = <<0, 1>>
    /\ result.value.indices = <<1, 0, 1>>

\* C27: for every dense D, matrices without rows or columns included, the
\* direct conversion and the one through the coordinate form return the same
\* compressed matrix, convert_dense_csr(D) =
\* convert_coo_csr(convert_dense_coo(D)) and likewise for csc: the same
\* offsets (same length), minor indices and values.
C27_DirectEqualsThroughCoo ==
    (/\ pc = "done"
     /\ lhs.kind = "Dense"
     /\ rhs # NoOperand
     /\ op \in {"convert_coo_csr", "convert_coo_csc"}) =>
        LET direct == IF op = "convert_coo_csr" THEN convert_dense_csr(lhs)
                      ELSE convert_dense_csc(lhs)
        IN  /\ result.kind = "Ok"
            /\ direct.kind = "Ok"
            /\ shape(result.value) = shape(direct.value)
            /\ Len(result.value.offsets) = Len(direct.value.offsets)
            /\ result.value.offsets = direct.value.offsets
            /\ result.value.indices = direct.value.indices
            /\ result.value.data = direct.value.data

\* C28: converting the orientation by lane bucketing returns what the
\* sort-based path through the coordinate form returns, convert_csr_csc(M) =
\* convert_coo_csc(convert_csr_coo(M)) and convert_csc_csr(M) =
\* convert_coo_csr(convert_csc_coo(M)); the result has the shape, the nnz
\* (explicit zeros kept) and the cells of M, and the minor indices of each of
\* its lanes are increasing without any sort.
C28_BucketingEqualsSorting ==
    (/\ pc = "done"
     /\ rhs # NoOperand
     /\ \/ lhs.kind = "CSR" /\ op = "convert_coo_csc"
        \/ lhs.kind = "CSC" /\ op = "convert_coo_csr") =>
        LET direct == IF lhs.kind = "CSR" THEN convert_csr_csc(lhs)
                      ELSE convert_csc_csr(lhs)
            m      == direct.value
        IN  /\ result.kind = "Ok"
            /\ direct.kind = "Ok"
            /\ result.value = m
            /\ m.kind # lhs.kind
            /\ shape(m) = shape(lhs)
            /\ nnz(m) = nnz(lhs)
            /\ Entries(m) = Entries(lhs)
            /\ \A c \in Cells(shape(lhs)) : CsCell(m, c[1], c[2]) = CsCell(lhs, c[1], c[2])
            /\ \A p, q \in DOMAIN m.indices :
                  (p < q /\ MajorAt(m, p) = MajorAt(m, q)) => m.indices[p] < m.indices[q]

\* csr -> coo -> csc of a 2 x 2 matrix storing an explicit zero at (0, 1)
\* and a one at (1, 0): the column-major result stores (1, 0) first.
C28_Witness ==
    /\ pc = "done"
    /\ op = "convert_coo_csc"
    /\ lhs.kind = "CSR"
    /\ shape(lhs) = <<2, 2>>
    /\ Entries(lhs) = {<<<<0, 1>>, 0>>, <<<<1, 0>>, 1>>}
    /\ rhs.kind = "COO"
    /\ rhs.rows = <<0, 1>>
    /\ result.kind = "Ok"
    /\ result.value.indices = <<1, 0>>
    /\ result.value.data = <<1, 0>>
    /\ result.value = convert_csr_csc(lhs).value

====
